---- MODULE Spec2Model ----
(***************************************************************************)
(* Model of the Eco-Route-Navigation routing core.                         *)
(*   adb[1].h : sparse k-NN graph, ecodijkstra, dijkstra_skip_edge,        *)
(*              yen_k2_paths, ask_place_interactive                        *)
(*   carbon.c : dense graph, traffic cache, apply_co2_weights, dijkstra    *)
(* Distances are the source's haversine formula evaluated at integer       *)
(* degree coordinates, kept in metres (rounded), so that sums and          *)
(* comparisons are exact integer arithmetic.                               *)
(***************************************************************************)
EXTENDS Integers, Sequences, FiniteSets, TLC

(* ------------------------------ bounds --------------------------------- *)
MaxV == 4
MaxLat == 1
MaxLon == 2
MaxK == 3
MaxN == 3
MaxRows == 2
MaxNames == 2
MaxPts == 4
MaxEps == 4
MaxLines == 4
MaxLong == 8
MaxSmallV == 12
NearCap == 2
Epoch == 1000

(* ------------------------- program constants --------------------------- *)
MAXV == 1500
MAXE == MAXV * 16
\* INF is 1e18 in the source; here the largest round value TLC's integers hold
INF == 2000000000
\* traffic multipliers are kept in halves: 1.0 is TF_ONE, the cap 4.0 is TF_CAP
TF_ONE == 2
TF_CAP == 8
DEFAULT_CO2_GKM == 120
SAMPLE_EVERY_N == 3
CACHE_TTL_MINUTES_DEFAULT == 15

VARIABLES
    mode,                    \* main.c userMenu choice: "dist" (ecopath) or "co2" (shortp)
    pc,                      \* position of the process inside the chosen handler
    V, lat, lon,             \* adb[1].h: node count and coordinates
    head, to, nxt, w, E,     \* adb[1].h: adjacency arrays and record count
    parent, distv, used,     \* adb[1].h: Dijkstra tables
    skip_u, skip_v,          \* adb[1].h: excluded undirected edge
    knn_k,                   \* argument of the build_knn_fixed call
    qs, qt,                  \* resolved source and target of the request
    out, count,              \* ecopath: routes[] and found
    A,                       \* yen_k2_paths: candidate list
    g,                       \* carbon.c: Graph (n, cities, edges)
    cache,                   \* the file traffic_cache.txt
    now,                     \* time(NULL)
    fresh, branch,           \* is_cache_fresh result; branch taken by traffic preparation
    car_co2,                 \* shortp: emission factor in use
    rc, path, total_co2,     \* shortp: dijkstra return value, path[], total_co2
    wpc, wflushed,           \* save_traffic_cache in flight: position, rows on disk
    rpc, rfresh, rseen,      \* a second process reading the cache file
    prevfile,                \* the cache file as it was before the writer opened it
    names, q, apc,           \* place resolution: node names, query, position
    shown, prompted, res,    \* candidate list printed, pick requested, index returned
    car_min, bike_min, walk_min,       \* estimated travel times of the reported route
    places_file,             \* the node file read by load_places / load_places_space
    knn_u,                   \* build_knn_fixed: the outer loop variable u
    calls,                   \* carbon.c: calls made by traffic preparation, in order
    map_written,             \* ecopath: write_html("route_map.html", ...) was called
    rdp_pc, rdp_pts, rdp_eps,          \* rdp_simplify call: position, pts[], eps
    rdp_keep, rdp_out, rdp_c,          \* rdp_simplify: keep[], out[], return value
    rdp_maxtop                         \* rdp_simplify: largest value of top

distVars == <<V, lat, lon, head, to, nxt, w, E, parent, distv, used,
              skip_u, skip_v, knn_k, out, count, A>>

co2Vars == <<g, cache, now, fresh, branch, car_co2, rc, path, total_co2>>

ioVars == <<wpc, wflushed, rpc, rfresh, rseen, prevfile>>

askVars == <<names, q, apc, shown, prompted, res>>

timeVars == <<car_min, bike_min, walk_min>>

rdpVars == <<rdp_pc, rdp_pts, rdp_eps, rdp_keep, rdp_out, rdp_c, rdp_maxtop>>

logVars == <<calls, map_written>>

loadVars == <<places_file, knn_u>>

vars == <<mode, pc, qs, qt, distVars, co2Vars, ioVars, askVars, timeVars, rdpVars, logVars, loadVars>>

(* ------------------------------ utilities ------------------------------ *)
Abs(x) == IF x < 0 THEN -x ELSE x
MinI(a, b) == IF a < b THEN a ELSE b
MaxI(a, b) == IF a < b THEN b ELSE a

Nodes(n) == 0 .. (n - 1)

\* R*c of the haversine formula at integer degrees, in metres:
\* HavTable[<<la, lb>>][d + 1] for latitudes la <= lb and |dlon| = d.
HavTable ==
    (<<0, 0>> :> <<0, 111195, 222390, 333585>>) @@
    (<<0, 1>> :> <<111195, 157249, 248629, 351613>>) @@
    (<<0, 2>> :> <<222390, 248629, 314475, 400863>>) @@
    (<<1, 1>> :> <<0, 111178, 222356, 333534>>) @@
    (<<1, 2>> :> <<111195, 157225, 248569, 351517>>) @@
    (<<2, 2>> :> <<0, 111127, 222254, 333382>>)

haversine(la1, lo1, la2, lo2) ==
    HavTable[<<MinI(la1, la2), MaxI(la1, la2)>>][Abs(lo2 - lo1) + 1]

haversine_km_idx(i, j) == haversine(lat[i], lon[i], lat[j], lon[j])

(* ------------------------- (2) graph builder --------------------------- *)
\* The adjacency arrays as one value: head over the nodes, to/nxt/w as
\* sequences whose element e+1 is the source's array element e.
EmptyGraph(n) ==
    [head |-> [i \in Nodes(n) |-> -1], to |-> <<>>, nxt |-> <<>>, w |-> <<>>,
     E |-> 0, died |-> FALSE]

reset_graph(n) == EmptyGraph(n)

add_edge(adj, n, u, v, ww) ==
    IF u < 0 \/ u >= n \/ v < 0 \/ v >= n \/ u = v THEN adj
    ELSE IF adj.E + 2 >= MAXE THEN [adj EXCEPT !.died = TRUE]
    ELSE [head |-> [adj.head EXCEPT ![u] = adj.E, ![v] = adj.E + 1],
          to   |-> adj.to \o <<v, u>>,
          nxt  |-> adj.nxt \o <<adj.head[u], adj.head[v]>>,
          w    |-> adj.w \o <<ww, ww>>,
          E    |-> adj.E + 2,
          died |-> adj.died]

\* first index of the minimum of dists over j in i..n-1 (strict <, ascending j)
RECURSIVE SelMin(_, _, _, _)
SelMin(dists, n, j, mi) ==
    IF j >= n THEN mi
    ELSE SelMin(dists, n, j + 1, IF dists[j] < dists[mi] THEN j ELSE mi)

\* the partial selection sort of build_knn_fixed: k rounds of select-and-swap
RECURSIVE KnnSelect(_, _, _, _, _)
KnnSelect(dists, idx, n, k, i) ==
    IF ~(i < k /\ i < n) THEN idx
    ELSE LET mi == SelMin(dists, n, i + 1, i)
         IN KnnSelect([dists EXCEPT ![i] = dists[mi], ![mi] = dists[i]],
                      [idx EXCEPT ![i] = idx[mi], ![mi] = idx[i]],
                      n, k, i + 1)

KnnOrder(n, k, u) ==
    KnnSelect([v \in Nodes(n) |-> IF u = v THEN INF ELSE haversine_km_idx(u, v)],
              [v \in Nodes(n) |-> v], n, k, 0)

RECURSIVE KnnAddEdges(_, _, _, _, _, _)
KnnAddEdges(adj, n, kk, u, idx, i) ==
    IF i >= kk THEN adj
    ELSE LET v == idx[i]
             g2 == IF v # u THEN add_edge(adj, n, u, v, haversine_km_idx(u, v)) ELSE adj
         IN KnnAddEdges(g2, n, kk, u, idx, i + 1)

RECURSIVE KnnNodes(_, _, _, _)
KnnNodes(adj, n, k, u) ==
    IF u >= n THEN adj
    ELSE KnnNodes(KnnAddEdges(adj, n, IF k < n THEN k ELSE n, u, KnnOrder(n, k, u), 0),
                  n, k, u + 1)

\* variant: k is clamped to V-2 instead of V-1
build_knn_fixed_short(n, k0) ==
    LET k1 == IF k0 < 1 THEN 1 ELSE k0
        k  == IF n - 2 < k1 THEN n - 2 ELSE k1
    IN KnnNodes(reset_graph(n), n, k, 0)

\* the graph build_knn_fixed(k0) leaves in head/to/nxt/w/E
build_knn_fixed(n, k0) ==
    LET k1 == IF k0 < 1 THEN 1 ELSE k0
        k  == IF n - 1 < k1 THEN n - 1 ELSE k1
    IN KnnNodes(reset_graph(n), n, k, 0)

(* ------------------------ (3) shortest paths --------------------------- *)
CurGraph == [head |-> head, to |-> to, nxt |-> nxt, w |-> w, E |-> E, died |-> FALSE]

\* variant: the source starts at distance 1
InitTables_offset(n, s) ==
    [distv  |-> [i \in Nodes(n) |-> IF i = s THEN 1 ELSE INF],
     used   |-> [i \in Nodes(n) |-> 0],
     parent |-> [i \in Nodes(n) |-> -1]]

InitTables(n, s) ==
    [distv  |-> [i \in Nodes(n) |-> IF i = s THEN 0 ELSE INF],
     used   |-> [i \in Nodes(n) |-> 0],
     parent |-> [i \in Nodes(n) |-> -1]]

\* linear scan: the lowest index among the unused nodes of least distv < INF
RECURSIVE minQscan(_, _, _, _, _)
minQscan(st, n, i, best, bi) ==
    IF i >= n THEN bi
    ELSE IF st.used[i] = 0 /\ st.distv[i] < best
         THEN minQscan(st, n, i + 1, st.distv[i], i)
         ELSE minQscan(st, n, i + 1, best, bi)

\* variant: takes the first unused reached node instead of the nearest one
minQ_first(st, n) ==
    IF \E i \in Nodes(n) : st.used[i] = 0 /\ st.distv[i] < INF
    THEN CHOOSE i \in Nodes(n) :
            /\ st.used[i] = 0 /\ st.distv[i] < INF
            /\ \A j \in Nodes(n) : (st.used[j] = 0 /\ st.distv[j] < INF) => i <= j
    ELSE -1

minQ(st, n) == minQscan(st, n, 0, INF, -1)

\* the relaxation loop over the adjacency chain of u, starting at record e;
\* skipping is TRUE in dijkstra_skip_edge and FALSE in ecodijkstra
RECURSIVE RelaxChain(_, _, _, _, _, _, _)
RelaxChain(adj, st, u, e, skipping, su, sv) ==
    IF e = -1 THEN st
    ELSE LET v   == adj.to[e + 1]
             alt == st.distv[u] + adj.w[e + 1]
             st2 == IF skipping /\ ((u = su /\ v = sv) \/ (u = sv /\ v = su)) THEN st
                    ELSE IF alt < st.distv[v]
                         THEN [st EXCEPT !.distv[v] = alt, !.parent[v] = u]
                         ELSE st
         IN RelaxChain(adj, st2, u, adj.nxt[e + 1], skipping, su, sv)

RECURSIVE DijkLoop(_, _, _, _, _, _, _)
DijkLoop(adj, n, t, st, skipping, su, sv) ==
    LET u == minQ(st, n)
    IN IF u = -1 THEN st
       ELSE LET st1 == [st EXCEPT !.used[u] = 1]
            IN IF u = t THEN st1
               ELSE DijkLoop(adj, n, t,
                             RelaxChain(adj, st1, u, adj.head[u], skipping, su, sv),
                             skipping, su, sv)

\* tables left by ecodijkstra(s,t); its return value is .distv[t]
ecodijkstra(adj, n, s, t) == DijkLoop(adj, n, t, InitTables(n, s), FALSE, -1, -1)

\* variant: the exclusion is not applied
dijkstra_skip_edge_noskip(adj, n, s, t, su, sv) ==
    DijkLoop(adj, n, t, InitTables(n, s), FALSE, su, sv)

\* tables left by dijkstra_skip_edge(s,t) under the exclusion (su,sv)
dijkstra_skip_edge(adj, n, s, t, su, sv) ==
    DijkLoop(adj, n, t, InitTables(n, s), TRUE, su, sv)

\* for(v=t; v!=-1; v=parent[v]) tmp[k++]=v;  reversed
RECURSIVE WalkParents(_, _, _)
WalkParents(par, v, acc) ==
    IF v = -1 THEN acc ELSE WalkParents(par, par[v], <<v>> \o acc)

\* variant: the walk from the target is not reversed
RECURSIVE WalkForward(_, _, _)
WalkForward(par, v, acc) ==
    IF v = -1 THEN acc ELSE WalkForward(par, par[v], Append(acc, v))

build_path_unreversed(st, t) ==
    IF st.distv[t] >= INF \div 2 THEN <<>> ELSE WalkForward(st.parent, t, <<>>)

build_path(st, t) ==
    IF st.distv[t] >= INF \div 2 THEN <<>> ELSE WalkParents(st.parent, t, <<>>)

equal_paths(a, b) ==
    /\ a.len = b.len
    /\ \A i \in 1 .. a.len : a.nodes[i] = b.nodes[i]

RECURSIVE HavSum(_, _)
HavSum(ns, j) ==
    IF j >= Len(ns) THEN 0
    ELSE haversine_km_idx(ns[j], ns[j + 1]) + HavSum(ns, j + 1)

YEN_CAP == 64

\* one iteration i (0-based) of the spur loop of yen_k2_paths;
\* y = [A, st, su, sv]: candidates, Dijkstra tables, exclusion
YenSpur(adj, n, t, prev, y, i) ==
    LET su == prev.nodes[i + 1]
        sv == prev.nodes[i + 2]
        st == dijkstra_skip_edge(adj, n, prev.nodes[i + 1], t, su, sv)
        c  == st.distv[t]
        spur_nodes == WalkParents(st.parent, t, <<>>)
        cnodes == SubSeq(prev.nodes, 1, i + 1) \o Tail(spur_nodes)
        cand == [len   |-> Len(cnodes),
                 nodes |-> cnodes,
                 cost  |-> HavSum(SubSeq(prev.nodes, 1, i + 1), 1) + HavSum(spur_nodes, 1)]
        dup == \E p \in 1 .. Len(y.A) : equal_paths(y.A[p], cand)
    IN IF c >= INF \div 2 THEN [y EXCEPT !.st = st, !.su = su, !.sv = sv]
       ELSE [A  |-> IF ~dup /\ Len(y.A) < YEN_CAP THEN Append(y.A, cand) ELSE y.A,
             st |-> st, su |-> su, sv |-> sv]

RECURSIVE YenLoop(_, _, _, _, _, _)
YenLoop(adj, n, t, prev, y, i) ==
    IF i >= prev.len - 1 THEN y
    ELSE YenLoop(adj, n, t, prev, YenSpur(adj, n, t, prev, y, i), i + 1)

\* variant: keeps the dearest candidate (comparison reversed)
RECURSIVE BestCand_max(_, _, _)
BestCand_max(cands, i, besti) ==
    IF i > Len(cands) THEN besti
    ELSE BestCand_max(cands, i + 1, IF cands[i].cost > cands[besti].cost THEN i ELSE besti)

\* first index of the least cost in A (strict <)
RECURSIVE BestCand(_, _, _)
BestCand(cands, i, besti) ==
    IF i > Len(cands) THEN besti
    ELSE BestCand(cands, i + 1, IF cands[i].cost < cands[besti].cost THEN i ELSE besti)

\* variant: the exclusion is left as the last iteration set it
YenSkipReset_none(y) == y

\* what the loop leaves in skip_u, skip_v when yen_k2_paths returns
YenSkipReset(y) == [y EXCEPT !.su = -1, !.sv = -1]

\* yen_k2_paths(s,t,out): [count, out, A, st, su, sv] at return;
\* su0, sv0 are skip_u, skip_v at the call
yen_k2_paths(adj, n, s, t, su0, sv0) ==
    LET st0  == ecodijkstra(adj, n, s, t)
        best == st0.distv[t]
    IN IF best >= INF \div 2
       THEN [count |-> 0, out |-> <<>>, A |-> <<>>, st |-> st0, su |-> su0, sv |-> sv0]
       ELSE LET p0 == build_path(st0, t)
                o0 == [len |-> Len(p0), nodes |-> p0, cost |-> best]
                y  == YenSkipReset(
                        YenLoop(adj, n, t, o0, [A |-> <<>>, st |-> st0, su |-> su0, sv |-> sv0], 0))
            IN IF Len(y.A) = 0
               THEN [count |-> 1, out |-> <<o0>>, A |-> y.A, st |-> y.st, su |-> y.su, sv |-> y.sv]
               ELSE [count |-> 2, out |-> <<o0, y.A[BestCand(y.A, 2, 1)]>>,
                     A |-> y.A, st |-> y.st, su |-> y.su, sv |-> y.sv]

(* ------------------ adb[1].h: estimated travel times ------------------- *)
CAR_KMH == 40
BIKE_KMH == 15
WALK_KMH == 5

\* minutes from a distance and a speed in km/h; the distance is in metres
\* here and the result in units of 1/2000 minute, so the quotient is exact
compute_time_min(distance_km, speed_kmh) ==
    IF speed_kmh <= 0 THEN 0 ELSE (distance_km * 120) \div speed_kmh

(* ------------------------- carbon.c: dense graph ----------------------- *)
\* haversine_km, kept in units of 100 m so that CO2 costs stay below INF/2
haversine_km(lat1, lon1, lat2, lon2) == haversine(lat1, lon1, lat2, lon2) \div 100

Slots(n) == Nodes(n) \X Nodes(n)

build_complete_graph(cities, n) ==
    [p \in Slots(n) |->
        IF p[1] # p[2]
        THEN [v |-> p[2],
              distance_km |-> haversine_km(cities[p[1]].lat, cities[p[1]].lon,
                                           cities[p[2]].lat, cities[p[2]].lon),
              traffic_factor |-> TF_ONE, co2_cost |-> 0]
        ELSE [v |-> -1, distance_km |-> 0, traffic_factor |-> TF_ONE, co2_cost |-> 0]]

\* the collaborator's answer: rsp.ok is popen's success, rsp.cur and rsp.freef
\* the parsed speeds (-1 when the field is absent)
sample_tomtom_factor(rsp) ==
    IF ~rsp.ok THEN TF_ONE
    ELSE IF rsp.cur > 0 /\ rsp.freef > 0
         THEN LET fac == (rsp.freef * TF_ONE) \div rsp.cur
              IN IF fac < TF_ONE THEN TF_ONE ELSE IF fac > TF_CAP THEN TF_CAP ELSE fac
         ELSE TF_ONE

\* variant: the age is compared with < instead of <=
is_cache_fresh_strict(f, ttl_minutes, tnow) ==
    IF ~f.exists THEN FALSE
    ELSE IF ~f.tsok THEN FALSE
    ELSE LET age == tnow - f.ts
         IN IF age < 0 THEN FALSE
            ELSE IF age < ttl_minutes * 60 THEN TRUE
            ELSE FALSE

\* f is the cache file: [exists, tsok, ts, rows]
is_cache_fresh(f, ttl_minutes, tnow) ==
    IF ~f.exists THEN FALSE
    ELSE IF ~f.tsok THEN FALSE
    ELSE LET age == tnow - f.ts
         IN IF age < 0 THEN FALSE
            ELSE IF age <= ttl_minutes * 60 THEN TRUE
            ELSE FALSE

\* variant: a row sets the slot of its own order only
RECURSIVE LoadRows_oneway(_, _, _, _)
LoadRows_oneway(edges, n, rows, i) ==
    IF i > Len(rows) THEN edges
    ELSE LET u == rows[i][1]
             v == rows[i][2]
             fac == rows[i][3]
         IN LoadRows_oneway(IF u >= 0 /\ u < n /\ v >= 0 /\ v < n
                            THEN [edges EXCEPT ![<<u, v>>].traffic_factor = fac]
                            ELSE edges,
                            n, rows, i + 1)

RECURSIVE LoadRows(_, _, _, _)
LoadRows(edges, n, rows, i) ==
    IF i > Len(rows) THEN edges
    ELSE LET u == rows[i][1]
             v == rows[i][2]
             fac == rows[i][3]
         IN LoadRows(IF u >= 0 /\ u < n /\ v >= 0 /\ v < n
                     THEN [edges EXCEPT ![<<u, v>>].traffic_factor = fac,
                                        ![<<v, u>>].traffic_factor = fac]
                     ELSE edges,
                     n, rows, i + 1)

\* [ok, edges]: the return value and the edges left behind
load_traffic_cache(edges, n, f) ==
    IF ~f.exists THEN [ok |-> FALSE, edges |-> edges]
    ELSE IF ~f.tsok THEN [ok |-> FALSE, edges |-> edges]
    ELSE [ok |-> TRUE,
          edges |-> LoadRows([p \in Slots(n) |-> [edges[p] EXCEPT !.traffic_factor = TF_ONE]],
                             n, f.rows, 1)]

RECURSIVE SaveRows(_, _, _, _)
SaveRows(edges, n, i, j) ==
    IF i >= n THEN <<>>
    ELSE IF j >= n THEN SaveRows(edges, n, i + 1, i + 2)
    ELSE <<<<i, j, edges[<<i, j>>].traffic_factor>>>> \o SaveRows(edges, n, i, j + 1)

\* [ok, file]: wok is the success of fopen(..., "w")
save_traffic_cache(edges, n, f, tnow, wok) ==
    IF ~wok THEN [ok |-> FALSE, file |-> f]
    ELSE [ok |-> TRUE,
          file |-> [exists |-> TRUE, tsok |-> TRUE, ts |-> tnow,
                    rows |-> SaveRows(edges, n, 0, 1)]]

\* the sampling loop over i < j; rsps[c] answers the c-th sampling call
RECURSIVE SampleLoop(_, _, _, _, _, _, _)
SampleLoop(edges, n, i, j, sample_count, sample_every_n, rsps) ==
    IF i >= n THEN edges
    ELSE IF j >= n THEN SampleLoop(edges, n, i + 1, i + 2, sample_count, sample_every_n, rsps)
    ELSE LET fac == IF sample_count % sample_every_n = 0
                    THEN sample_tomtom_factor(rsps[(sample_count \div sample_every_n) + 1])
                    ELSE TF_ONE
         IN SampleLoop([edges EXCEPT ![<<i, j>>].traffic_factor = fac,
                                     ![<<j, i>>].traffic_factor = fac],
                       n, i, j + 1, sample_count + 1, sample_every_n, rsps)

NumPairs(n) == (n * (n - 1)) \div 2
NumSamples(n, sample_every_n) == (NumPairs(n) + sample_every_n - 1) \div sample_every_n

\* the calls of sample_tomtom_factor the sampling loop makes, in loop order
RECURSIVE SampleCalls(_, _, _, _, _)
SampleCalls(n, i, j, sample_count, sample_every_n) ==
    IF i >= n THEN <<>>
    ELSE IF j >= n THEN SampleCalls(n, i + 1, i + 2, sample_count, sample_every_n)
    ELSE (IF sample_count % sample_every_n = 0 THEN <<"sample_tomtom_factor">> ELSE <<>>)
            \o SampleCalls(n, i, j + 1, sample_count + 1, sample_every_n)

\* variant: the cache file is written before the sampling loop runs
SampleAndSave_savefirst(edges, n, f, tnow, sample_every_n, rsps, wok) ==
    [edges |-> SampleLoop(edges, n, 0, 1, 0, sample_every_n, rsps),
     file  |-> save_traffic_cache(edges, n, f, tnow, wok).file,
     calls |-> <<"save_traffic_cache">> \o SampleCalls(n, 0, 1, 0, sample_every_n)]

\* the sampling branch: the loop over i < j, then save_traffic_cache(g)
SampleAndSave(edges, n, f, tnow, sample_every_n, rsps, wok) ==
    LET sampled == SampleLoop(edges, n, 0, 1, 0, sample_every_n, rsps)
    IN [edges |-> sampled,
        file  |-> save_traffic_cache(sampled, n, f, tnow, wok).file,
        calls |-> SampleCalls(n, 0, 1, 0, sample_every_n) \o <<"save_traffic_cache">>]

\* [edges, file, fresh, branch, calls] after build_edge_midpoint_traffic_factors_cached
build_edge_midpoint_traffic_factors_cached(edges, n, f, tnow, sample_every_n0, force_refresh, ttl_minutes, rsps, wok) ==
    LET sample_every_n == IF sample_every_n0 < 1 THEN SAMPLE_EVERY_N ELSE sample_every_n0
        isfresh == is_cache_fresh(f, ttl_minutes, tnow)
        ld == load_traffic_cache(edges, n, f)
        ss == SampleAndSave(edges, n, f, tnow, sample_every_n, rsps, wok)
        pre == (IF force_refresh THEN <<>> ELSE <<"is_cache_fresh">>)
                  \o (IF ~force_refresh /\ isfresh THEN <<"load_traffic_cache">> ELSE <<>>)
    IN IF ~force_refresh /\ isfresh /\ ld.ok
       THEN [edges |-> ld.edges, file |-> f, fresh |-> isfresh, branch |-> "cache",
             calls |-> pre]
       ELSE [edges |-> ss.edges,
             file |-> ss.file,
             fresh |-> IF force_refresh THEN FALSE ELSE isfresh,
             branch |-> "sampled",
             calls |-> pre \o ss.calls]

\* variant: the traffic multiplier is left out of the cost
apply_co2_weights_notraffic(edges, n, car_co2_g_per_km) ==
    [p \in Slots(n) |->
        IF edges[p].v >= 0
        THEN [edges[p] EXCEPT !.co2_cost = edges[p].distance_km * TF_ONE * car_co2_g_per_km]
        ELSE [edges[p] EXCEPT !.co2_cost = 0]]

apply_co2_weights(edges, n, car_co2_g_per_km) ==
    [p \in Slots(n) |->
        IF edges[p].v >= 0
        THEN [edges[p] EXCEPT !.co2_cost =
                 edges[p].distance_km * edges[p].traffic_factor * car_co2_g_per_km]
        ELSE [edges[p] EXCEPT !.co2_cost = 0]]

(* --------------------- carbon.c: Dijkstra (min CO2) -------------------- *)
RECURSIVE DenseSelect(_, _, _, _, _)
DenseSelect(nodes, n, i, best, u) ==
    IF i >= n THEN u
    ELSE IF ~nodes[i].visited /\ nodes[i].dist < best
         THEN DenseSelect(nodes, n, i + 1, nodes[i].dist, i)
         ELSE DenseSelect(nodes, n, i + 1, best, u)

RECURSIVE DenseRelax(_, _, _, _, _)
DenseRelax(edges, nodes, n, u, v) ==
    IF v >= n THEN nodes
    ELSE LET e == edges[<<u, v>>]
             alt == nodes[u].dist + e.co2_cost
         IN DenseRelax(edges,
                       IF e.v >= 0 /\ ~nodes[v].visited /\ alt < nodes[v].dist
                       THEN [nodes EXCEPT ![v].dist = alt, ![v].prev = u]
                       ELSE nodes,
                       n, u, v + 1)

RECURSIVE DenseLoop(_, _, _, _)
DenseLoop(edges, nodes, n, dst) ==
    LET u == DenseSelect(nodes, n, 0, INF, -1)
    IN IF u = -1 THEN nodes
       ELSE IF u = dst THEN nodes
       ELSE DenseLoop(edges,
                      DenseRelax(edges, [nodes EXCEPT ![u].visited = TRUE], n, u, 0),
                      n, dst)

PATH_CAP == 1024

\* while (cur != -1 && k < 1024) tmp[k++] = cur;  reversed
RECURSIVE DenseWalk(_, _, _)
DenseWalk(nodes, cur, acc) ==
    IF cur = -1 \/ Len(acc) >= PATH_CAP THEN acc
    ELSE DenseWalk(nodes, nodes[cur].prev, <<cur>> \o acc)

\* [rc, path, cost, nodes]: return value, out_path, *out_cost and the node table
dijkstra(edges, n, src, dst) ==
    LET nodes == DenseLoop(edges,
                     [i \in Nodes(n) |-> [dist |-> IF i = src THEN 0 ELSE INF,
                                          prev |-> -1, visited |-> FALSE]],
                     n, dst)
    IN IF nodes[dst].dist >= INF \div 2
       THEN [rc |-> 0, path |-> <<>>, cost |-> 0, nodes |-> nodes]
       ELSE [rc |-> 1, path |-> DenseWalk(nodes, dst, <<>>),
             cost |-> nodes[dst].dist, nodes |-> nodes]

(* ------------------ carbon.c: estimated travel times ------------------- *)
CAR_FREEFLOW_KMPH == 50
BIKE_KMPH == 15
WALK_KMPH == 5
CAR_FLOOR_KMPH == 5

\* car minutes of one step: car_speed = CAR_FREEFLOW_KMPH / factor, raised to
\* 5 km/h when below it (factor 0 gives an infinite speed and 0 minutes);
\* d in units of 100 m, factor in halves, result in units of 1/50 minute
StepCarMin(d, factor) ==
    IF factor < 0 \/ (factor > 0 /\ CAR_FREEFLOW_KMPH * TF_ONE < CAR_FLOOR_KMPH * factor)
    THEN (d * 300) \div CAR_FLOOR_KMPH
    ELSE (d * 300 * factor) \div (CAR_FREEFLOW_KMPH * TF_ONE)

\* the loop of shortp over the steps of path[]: the three totals
RECURSIVE RouteTimes(_, _, _, _)
RouteTimes(edges, ns, i, acc) ==
    IF i >= Len(ns) THEN acc
    ELSE LET e == edges[<<ns[i], ns[i + 1]>>] IN
         RouteTimes(edges, ns, i + 1,
            [car  |-> acc.car + StepCarMin(e.distance_km, e.traffic_factor),
             bike |-> acc.bike + (e.distance_km * 300) \div BIKE_KMPH,
             walk |-> acc.walk + (e.distance_km * 300) \div WALK_KMPH])

(* ------------------------------ initial states ------------------------- *)
NoFile == [exists |-> FALSE, tsok |-> FALSE, ts |-> 0, rows |-> <<>>]

DistIdle ==
    /\ V = 0 /\ lat = <<>> /\ lon = <<>>
    /\ head = <<>> /\ to = <<>> /\ nxt = <<>> /\ w = <<>> /\ E = 0
    /\ parent = <<>> /\ distv = <<>> /\ used = <<>>
    /\ skip_u = -1 /\ skip_v = -1 /\ knn_k = 0
    /\ out = <<>> /\ count = 0 /\ A = <<>>

Co2Idle ==
    /\ g = [n |-> 0, cities |-> <<>>, edges |-> <<>>]
    /\ cache = NoFile /\ now = 0 /\ fresh = FALSE /\ branch = "none"
    /\ car_co2 = 0 /\ rc = 0 /\ path = <<>> /\ total_co2 = 0

IoIdle ==
    /\ wpc = "none" /\ wflushed = 0
    /\ rpc = "none" /\ rfresh = FALSE /\ rseen = <<>>
    /\ prevfile = NoFile

AskIdle ==
    /\ names = <<>> /\ q = <<>> /\ apc = "none"
    /\ shown = <<>> /\ prompted = FALSE /\ res = -1

TimeIdle == car_min = 0 /\ bike_min = 0 /\ walk_min = 0

LogIdle == calls = <<>> /\ map_written = FALSE

LoadIdle == places_file = [exists |-> FALSE, lines |-> <<>>] /\ knn_u = 0

RdpIdle ==
    /\ rdp_pc = "none" /\ rdp_pts = <<>> /\ rdp_eps = 0
    /\ rdp_keep = <<>> /\ rdp_out = <<>> /\ rdp_c = 0 /\ rdp_maxtop = 0

\* ecopath after load_places: V >= 2 places read, graph reset
load_places(n, la, lo) ==
    /\ V = n /\ lat = la /\ lon = lo
    /\ head = reset_graph(n).head /\ to = <<>> /\ nxt = <<>> /\ w = <<>> /\ E = 0

InitDist ==
    /\ mode = "dist" /\ pc = "loaded"
    /\ \E n \in 2 .. MaxV :
         \E la \in [Nodes(n) -> 0 .. MaxLat], lo \in [Nodes(n) -> 0 .. MaxLon] :
            load_places(n, la, lo)
    /\ parent = [i \in Nodes(V) |-> 0]
    /\ distv = [i \in Nodes(V) |-> 0]
    /\ used = [i \in Nodes(V) |-> 0]
    /\ skip_u = -1 /\ skip_v = -1 /\ knn_k = 0
    /\ qs = -1 /\ qt = -1
    /\ out = <<>> /\ count = 0 /\ A = <<>>
    /\ Co2Idle /\ IoIdle /\ AskIdle /\ TimeIdle /\ RdpIdle /\ LogIdle /\ LoadIdle

Positions == [lat : 0 .. MaxLat, lon : 0 .. MaxLon]

\* cache files met by the routing runs: none, or a fresh one-row snapshot
\* (the factor of a row is read with %lf and may be zero or negative)
RouteFiles(tnow) ==
    {NoFile} \cup
    {[exists |-> TRUE, tsok |-> TRUE, ts |-> tnow, rows |-> <<<<0, 1, f>>>>] :
        f \in {0, 2 * TF_ONE, -TF_ONE}}

\* shortp after build_complete_graph, with the cache file and clock it meets
InitCo2(cs, f, tnow) ==
    /\ mode = "co2" /\ pc = "graph"
    /\ g = [n |-> Len(cs), cities |-> [i \in Nodes(Len(cs)) |-> cs[i + 1]],
            edges |-> build_complete_graph([i \in Nodes(Len(cs)) |-> cs[i + 1]], Len(cs))]
    /\ cache = f /\ now = tnow
    /\ fresh = FALSE /\ branch = "none"
    /\ car_co2 = DEFAULT_CO2_GKM /\ rc = 0 /\ path = <<>> /\ total_co2 = 0
    /\ qs = -1 /\ qt = -1
    /\ DistIdle /\ IoIdle /\ AskIdle /\ TimeIdle /\ RdpIdle /\ LogIdle /\ LoadIdle

Init ==
    \/ InitDist
    \/ \E n \in 2 .. MaxN : \E cs \in [1 .. n -> Positions] :
          \E f \in RouteFiles(Epoch) : InitCo2(cs, f, Epoch)

(* --------------------------- ecopath (adb[1].h) ------------------------ *)
\* ecopath: build_knn_fixed(k)
BuildKnn(k) ==
    /\ mode = "dist" /\ pc = "loaded"
    /\ \E adj \in {build_knn_fixed(V, k)} :
          /\ head' = adj.head /\ to' = adj.to /\ nxt' = adj.nxt /\ w' = adj.w /\ E' = adj.E
          /\ pc' = IF adj.died THEN "exit" ELSE "ready"
    /\ knn_k' = k
    /\ UNCHANGED <<mode, V, lat, lon, parent, distv, used, skip_u, skip_v, qs, qt,
                   out, count, A, co2Vars, ioVars, askVars, timeVars, rdpVars, loadVars, logVars>>

\* ecopath: s == t is fatal
SameEndpoints(s, t) ==
    /\ mode = "dist" /\ pc = "ready"
    /\ s = t
    /\ qs' = s /\ qt' = t
    /\ pc' = "exit"
    /\ UNCHANGED <<mode, distVars, co2Vars, ioVars, askVars, timeVars, rdpVars, loadVars, logVars>>

\* variant: the map is written whatever yen_k2_paths found
ecopath_writes_map_always(found) == TRUE

\* ecopath: "No route found" returns before display_results and write_html
ecopath_writes_map(found) == found # 0

\* ecopath: found = yen_k2_paths(s,t,routes), then the report and the map
Route(s, t) ==
    /\ mode = "dist" /\ pc = "ready"
    /\ s # t
    /\ \E r \in {yen_k2_paths(CurGraph, V, s, t, skip_u, skip_v)} :
          /\ out' = r.out /\ count' = r.count /\ A' = r.A
          /\ parent' = r.st.parent /\ distv' = r.st.distv /\ used' = r.st.used
          /\ skip_u' = r.su /\ skip_v' = r.sv
          /\ IF r.count = 0
             THEN UNCHANGED timeVars
             ELSE /\ car_min' = compute_time_min(r.out[1].cost, CAR_KMH)
                  /\ bike_min' = compute_time_min(r.out[1].cost, BIKE_KMH)
                  /\ walk_min' = compute_time_min(r.out[1].cost, WALK_KMH)
          /\ map_written' = ecopath_writes_map(r.count)
    /\ qs' = s /\ qt' = t
    /\ pc' = "done"
    /\ UNCHANGED <<mode, V, lat, lon, head, to, nxt, w, E, knn_k, co2Vars, ioVars, askVars, rdpVars, loadVars, calls>>

(* ----------------------------- shortp (carbon.c) ----------------------- *)
Responses ==
    {[ok |-> FALSE, cur |-> -1, freef |-> -1],
     [ok |-> TRUE, cur |-> -1, freef |-> 10],
     [ok |-> TRUE, cur |-> 10, freef |-> 10],
     [ok |-> TRUE, cur |-> 10, freef |-> 25],
     [ok |-> TRUE, cur |-> 10, freef |-> 50],
     [ok |-> TRUE, cur |-> 50, freef |-> 10]}

CarFactors == {DEFAULT_CO2_GKM, 90}

\* shortp: build_edge_midpoint_traffic_factors_cached(&g, SAMPLE_EVERY_N, 0, ttl)
TrafficPrepare(rsps, wok) ==
    /\ mode = "co2" /\ pc = "graph"
    /\ \E r \in {build_edge_midpoint_traffic_factors_cached(
                    g.edges, g.n, cache, now, SAMPLE_EVERY_N, FALSE,
                    CACHE_TTL_MINUTES_DEFAULT, rsps, wok)} :
          /\ g' = [g EXCEPT !.edges = r.edges]
          /\ cache' = r.file /\ fresh' = r.fresh /\ branch' = r.branch
          /\ calls' = r.calls
    /\ pc' = "traffic"
    /\ UNCHANGED <<mode, qs, qt, now, car_co2, rc, path, total_co2, distVars, ioVars, askVars, timeVars, rdpVars, loadVars, map_written>>

\* shortp: apply_co2_weights(&g, car_co2)
ApplyWeights(f) ==
    /\ mode = "co2" /\ pc = "traffic"
    /\ car_co2' = f
    /\ g' = [g EXCEPT !.edges = apply_co2_weights(g.edges, g.n, f)]
    /\ pc' = "weights"
    /\ UNCHANGED <<mode, qs, qt, cache, now, fresh, branch, rc, path, total_co2, distVars, ioVars, askVars, timeVars, rdpVars, loadVars, logVars>>

\* shortp: dijkstra(&g, src, dst, path, &path_len, &total_co2)
RouteCo2(src, dst) ==
    /\ mode = "co2" /\ pc = "weights"
    /\ \E r \in {dijkstra(g.edges, g.n, src, dst)} :
          /\ rc' = r.rc /\ path' = r.path /\ total_co2' = r.cost
          /\ IF r.rc = 0
             THEN UNCHANGED timeVars
             ELSE \E tm \in {RouteTimes(g.edges, r.path, 1, [car |-> 0, bike |-> 0, walk |-> 0])} :
                     car_min' = tm.car /\ bike_min' = tm.bike /\ walk_min' = tm.walk
    /\ qs' = src /\ qt' = dst
    /\ pc' = "done"
    /\ UNCHANGED <<mode, g, cache, now, fresh, branch, car_co2, distVars, ioVars, askVars, rdpVars, loadVars, logVars>>

DistNext ==
    \/ \E k \in 1 .. MaxK : BuildKnn(k)
    \/ \E s \in Nodes(V), t \in Nodes(V) : SameEndpoints(s, t)
    \/ \E s \in Nodes(V), t \in Nodes(V) : Route(s, t)

Co2Next ==
    \/ \E rsps \in [1 .. NumSamples(g.n, SAMPLE_EVERY_N) -> Responses], wok \in BOOLEAN :
          TrafficPrepare(rsps, wok)
    \/ \E f \in CarFactors : ApplyWeights(f)
    \/ \E src \in Nodes(g.n), dst \in Nodes(g.n) : RouteCo2(src, dst)

Next == DistNext \/ Co2Next

Spec == Init /\ [][Next]_vars

(* ------------- shortp against the cache files it may meet -------------- *)
FileFactors == {TF_ONE \div 2, 2 * TF_ONE, 5 * TF_ONE}

\* rows name a pair in either order, or a node index outside the graph
FileRows(n) ==
    {<<p[1], p[2], f>> : p \in {<<0, 1>>, <<1, 0>>, <<0, n>>}, f \in FileFactors}

RowSeqs(n) == UNION {[1 .. m -> FileRows(n)] : m \in 0 .. MaxRows}

\* timestamps around the two ends of the freshness window
Stamps(tnow, ttl_minutes) ==
    {tnow - ttl_minutes * 60 - 1, tnow - ttl_minutes * 60, tnow - 1, tnow, tnow + 1}

TrafficFiles(n, tnow) ==
    {NoFile}
    \cup {[exists |-> TRUE, tsok |-> FALSE, ts |-> 0, rows |-> <<>>]}
    \cup {[exists |-> TRUE, tsok |-> TRUE, ts |-> t, rows |-> r] :
             t \in Stamps(tnow, CACHE_TTL_MINUTES_DEFAULT), r \in RowSeqs(n)}

\* cities on the equator, one degree apart
LineCities(n) == [i \in 1 .. n |-> [lat |-> 0, lon |-> (i - 1) % (MaxLon + 1)]]

InitTraffic ==
    \E n \in 2 .. MaxN : \E f \in TrafficFiles(n, Epoch) : InitCo2(LineCities(n), f, Epoch)

SpecTraffic == InitTraffic /\ [][Co2Next]_vars

(* ------------------- reference notions for the claims ------------------ *)
MinOf(S) == CHOOSE x \in S : \A y \in S : x <= y

\* the edge records on the adjacency chain that starts at record e
RECURSIVE ChainRecords(_, _)
ChainRecords(adj, e) ==
    IF e = -1 THEN {} ELSE {e} \cup ChainRecords(adj, adj.nxt[e + 1])

RecordsFromTo(adj, u, v) == {e \in ChainRecords(adj, adj.head[u]) : adj.to[e + 1] = v}

HasEdge(adj, u, v) == RecordsFromTo(adj, u, v) # {}

EdgeWeight(adj, u, v) == MinOf({adj.w[e + 1] : e \in RecordsFromTo(adj, u, v)})

\* least total weight of a walk from s to each node: k rounds of
\* Bellman-Ford relaxation over every edge record
RECURSIVE LeastCost(_, _, _, _)
LeastCost(adj, n, d, k) ==
    IF k = 0 THEN d
    ELSE LeastCost(adj, n,
            [v \in Nodes(n) |->
                MinOf({d[v]} \cup {d[u] + EdgeWeight(adj, u, v) :
                                   u \in {x \in Nodes(n) : d[x] < INF /\ HasEdge(adj, x, v)}})],
            k - 1)

TrueDist(adj, n, s) == LeastCost(adj, n, [v \in Nodes(n) |-> IF v = s THEN 0 ELSE INF], n - 1)

IsGraphPath(adj, ns) == \A j \in 1 .. (Len(ns) - 1) : HasEdge(adj, ns[j], ns[j + 1])

RECURSIVE WeightSum(_, _, _)
WeightSum(adj, ns, j) ==
    IF j >= Len(ns) THEN 0
    ELSE EdgeWeight(adj, ns[j], ns[j + 1]) + WeightSum(adj, ns, j + 1)

Distinct(ns) == \A i, j \in 1 .. Len(ns) : i # j => ns[i] # ns[j]

\* least CO2 cost from src to each node over the valid slots of the dense graph
RECURSIVE DenseLeast(_, _, _, _)
DenseLeast(edges, n, d, k) ==
    IF k = 0 THEN d
    ELSE DenseLeast(edges, n,
            [v \in Nodes(n) |->
                MinOf({d[v]} \cup {d[u] + edges[<<u, v>>].co2_cost :
                                   u \in {x \in Nodes(n) : d[x] < INF /\ edges[<<x, v>>].v >= 0}})],
            k - 1)

DenseTrueDist(edges, n, src) ==
    DenseLeast(edges, n, [v \in Nodes(n) |-> IF v = src THEN 0 ELSE INF], n - 1)

NonNegative(edges, n) == \A p \in Slots(n) : edges[p].co2_cost >= 0

RECURSIVE Co2Sum(_, _, _)
Co2Sum(edges, ns, j) ==
    IF j >= Len(ns) THEN 0
    ELSE edges[<<ns[j], ns[j + 1]>>].co2_cost + Co2Sum(edges, ns, j + 1)

(* ---- two processes on traffic_cache.txt: one saving, one loading ------- *)
Factors(edges, n) == [p \in Slots(n) |-> edges[p].traffic_factor]

\* a complete snapshot: one row per pair i < j, all with multiplier f
FullRows(n, f) ==
    SaveRows([p \in Slots(n) |-> [traffic_factor |-> f]], n, 0, 1)

OldFiles(n, tnow) ==
    {NoFile} \cup
    {[exists |-> TRUE, tsok |-> TRUE, ts |-> t, rows |-> FullRows(n, f)] :
        t \in {tnow - CACHE_TTL_MINUTES_DEFAULT * 60 - 1, tnow - 1},
        f \in {TF_ONE, 2 * TF_ONE}}

InitCacheIO ==
    /\ \E n \in 2 .. MaxN : \E f \in OldFiles(n, Epoch) :
          /\ mode = "co2" /\ pc = "graph"
          /\ g = [n |-> n, cities |-> [i \in Nodes(n) |-> LineCities(n)[i + 1]],
                  edges |-> build_complete_graph(
                               [i \in Nodes(n) |-> LineCities(n)[i + 1]], n)]
          /\ cache = f /\ prevfile = f
    /\ now = Epoch
    /\ fresh = FALSE /\ branch = "none"
    /\ car_co2 = DEFAULT_CO2_GKM /\ rc = 0 /\ path = <<>> /\ total_co2 = 0
    /\ qs = -1 /\ qt = -1
    /\ wpc = "start" /\ wflushed = -1
    /\ rpc = "start" /\ rfresh = FALSE /\ rseen = <<>>
    /\ DistIdle /\ AskIdle /\ TimeIdle /\ RdpIdle /\ LogIdle /\ LoadIdle

\* writer: build_edge_midpoint_traffic_factors_cached up to the call of
\* save_traffic_cache (freshness check, then load or sampling loop)
WPrepare(rsps) ==
    /\ wpc = "start"
    /\ \E r \in {build_edge_midpoint_traffic_factors_cached(
                    g.edges, g.n, cache, now, SAMPLE_EVERY_N, FALSE,
                    CACHE_TTL_MINUTES_DEFAULT, rsps, FALSE)} :
          /\ g' = [g EXCEPT !.edges = r.edges]
          /\ fresh' = r.fresh /\ branch' = r.branch
          /\ wpc' = IF r.branch = "cache" THEN "hit" ELSE "sampled"
          /\ calls' = IF r.branch = "cache" THEN r.calls
                                            ELSE SubSeq(r.calls, 1, Len(r.calls) - 1)
    /\ UNCHANGED <<mode, pc, qs, qt, cache, now, car_co2, rc, path, total_co2,
                   wflushed, rpc, rfresh, rseen, prevfile, distVars, askVars, timeVars, rdpVars, loadVars, map_written>>

\* writer: fopen(TRAFFIC_CACHE_FILE, "w") truncates the file in place
WOpen(wok) ==
    /\ wpc = "sampled"
    /\ IF wok
       THEN /\ cache' = [exists |-> TRUE, tsok |-> FALSE, ts |-> 0, rows |-> <<>>]
            /\ wpc' = "open"
       ELSE /\ cache' = cache
            /\ wpc' = "failed"
    /\ calls' = Append(calls, "save_traffic_cache")
    /\ UNCHANGED <<mode, pc, qs, qt, g, now, fresh, branch, car_co2, rc, path, total_co2,
                   wflushed, rpc, rfresh, rseen, prevfile, distVars, askVars, timeVars, rdpVars, loadVars, map_written>>

\* writer: the stdio buffer reaches the file: the timestamp line and the
\* first k rows are on disk
WFlush(k) ==
    /\ wpc = "open"
    /\ k > wflushed
    /\ cache' = [exists |-> TRUE, tsok |-> TRUE, ts |-> now,
                 rows |-> SubSeq(SaveRows(g.edges, g.n, 0, 1), 1, k)]
    /\ wflushed' = k
    /\ UNCHANGED <<mode, pc, qs, qt, g, now, fresh, branch, car_co2, rc, path, total_co2,
                   wpc, rpc, rfresh, rseen, prevfile, distVars, askVars, timeVars, rdpVars, loadVars, logVars>>

\* writer: fclose writes what is left
WClose ==
    /\ wpc = "open"
    /\ cache' = save_traffic_cache(g.edges, g.n, cache, now, TRUE).file
    /\ wflushed' = NumPairs(g.n)
    /\ wpc' = "closed"
    /\ UNCHANGED <<mode, pc, qs, qt, g, now, fresh, branch, car_co2, rc, path, total_co2,
                   rpc, rfresh, rseen, prevfile, distVars, askVars, timeVars, rdpVars, loadVars, logVars>>

\* reader: is_cache_fresh(TRAFFIC_CACHE_FILE, ttl)
RFresh ==
    /\ rpc = "start"
    /\ rfresh' = is_cache_fresh(cache, CACHE_TTL_MINUTES_DEFAULT, now)
    /\ rpc' = IF rfresh' THEN "load" ELSE "sample"
    /\ UNCHANGED <<mode, pc, qs, qt, co2Vars, wpc, wflushed, rseen, prevfile,
                   distVars, askVars, timeVars, rdpVars, loadVars, logVars>>

\* reader: load_traffic_cache(g) on its own freshly built graph
RLoad ==
    /\ rpc = "load"
    /\ \E ld \in {load_traffic_cache(build_complete_graph(g.cities, g.n), g.n, cache)} :
          IF ld.ok
          THEN rseen' = Factors(ld.edges, g.n) /\ rpc' = "loaded"
          ELSE rseen' = rseen /\ rpc' = "sample"
    /\ UNCHANGED <<mode, pc, qs, qt, co2Vars, wpc, wflushed, rfresh, prevfile,
                   distVars, askVars, timeVars, rdpVars, loadVars, logVars>>

CacheIONext ==
    \/ \E rsps \in [1 .. NumSamples(g.n, SAMPLE_EVERY_N) -> Responses] : WPrepare(rsps)
    \/ \E wok \in BOOLEAN : WOpen(wok)
    \/ \E k \in 0 .. NumPairs(g.n) : WFlush(k)
    \/ WClose
    \/ RFresh
    \/ RLoad

SpecCacheIO == InitCacheIO /\ [][CacheIONext]_vars

(* ---- place resolution: ask_place_interactive (adb[1].h), shortp loop ---- *)
\* a name is a sequence of characters; tolower on the letters that occur
tolower(c) ==
    CASE c = "D" -> "d"
      [] c = "A" -> "a"
      [] c = "E" -> "e"
      [] c = "L" -> "l"
      [] OTHER -> c

tolower_copy(src) == [i \in 1 .. Len(src) |-> tolower(src[i])]

strcasecmp_eq(a, b) == tolower_copy(a) = tolower_copy(b)

strstr(a, b) ==
    \E k \in 0 .. Len(a) : k + Len(b) <= Len(a) /\ SubSeq(a, k + 1, k + Len(b)) = b

ci_contains(hay, needle) == strstr(tolower_copy(hay), tolower_copy(needle))

min3(a, b, c) == IF a < b THEN (IF a < b THEN a ELSE b) ELSE (IF b < c THEN b ELSE c)

\* row i of the table d, cells 1 .. m appended to acc (acc[1] is d[i][0])
RECURSIVE LevCells(_, _, _, _, _, _)
LevCells(a, b, i, prev, j, acc) ==
    IF j > Len(b) THEN acc
    ELSE LevCells(a, b, i, prev, j + 1,
             Append(acc, min3(prev[j + 1] + 1,
                              acc[j] + 1,
                              prev[j] + (IF a[i] = b[j] THEN 0 ELSE 1))))

RECURSIVE LevRows(_, _, _, _)
LevRows(a, b, i, prev) ==
    IF i > Len(a) THEN prev
    ELSE LevRows(a, b, i + 1, LevCells(a, b, i, prev, 1, <<i>>))

levenshtein_ci(s1, s2) ==
    LevRows(tolower_copy(s1), tolower_copy(s2), 1,
            [j \in 1 .. Len(s2) + 1 |-> j - 1])[Len(s2) + 1]

CAND_CAP == 64
BEST_N == 5
NO_DIST == 9999

RECURSIVE Candidates(_, _, _, _)
Candidates(nm, query, i, cand) ==
    IF i >= Len(nm) \/ Len(cand) >= CAND_CAP THEN cand
    ELSE Candidates(nm, query, i + 1,
            IF ci_contains(nm[i + 1], query) THEN Append(cand, i) ELSE cand)

\* insert (i, d) before the first entry of best with a larger distance
BestInsert(best, i, d) ==
    LET hits == {b \in 1 .. BEST_N : d < best[b].dist} IN
    IF hits = {} THEN best
    ELSE LET b0 == CHOOSE b \in hits : \A c \in hits : b <= c IN
         [s \in 1 .. BEST_N |->
             IF s < b0 THEN best[s]
             ELSE IF s = b0 THEN [idx |-> i, dist |-> d]
             ELSE best[s - 1]]

RECURSIVE BestScan(_, _, _, _)
BestScan(nm, query, i, best) ==
    IF i >= Len(nm) THEN best
    ELSE BestScan(nm, query, i + 1,
            BestInsert(best, i, levenshtein_ci(nm[i + 1], query)))

RECURSIVE BestShown(_, _, _)
BestShown(best, b, acc) ==
    IF b > BEST_N \/ best[b].idx = -1 THEN acc
    ELSE BestShown(best, b + 1, Append(acc, best[b].idx))

\* the whole of ask_place_interactive for the token query and the number
\* pick typed when a selection is asked for (0: not a usable number)
ask_place_interactive(nm, query, pick) ==
    LET exact == {i \in Nodes(Len(nm)) : strcasecmp_eq(nm[i + 1], query)}
        cand  == Candidates(nm, query, 0, <<>>)
        best  == BestScan(nm, query, 0, [b \in 1 .. BEST_N |-> [idx |-> -1, dist |-> NO_DIST]])
    IN
    IF exact # {}
    THEN [st |-> "selected", idx |-> MinOf(exact), shown |-> <<>>, prompted |-> FALSE]
    ELSE IF Len(cand) > 0
    THEN IF pick < 1 \/ pick > Len(cand)
         THEN [st |-> "died", idx |-> -1, shown |-> cand, prompted |-> TRUE]
         ELSE [st |-> "selected", idx |-> cand[pick], shown |-> cand, prompted |-> TRUE]
    ELSE IF pick < 1 \/ pick > BEST_N \/ best[MinI(MaxI(pick, 1), BEST_N)].idx = -1
         THEN [st |-> "died", idx |-> -1, shown |-> BestShown(best, 1, <<>>), prompted |-> TRUE]
         ELSE [st |-> "selected", idx |-> best[pick].idx,
               shown |-> BestShown(best, 1, <<>>), prompted |-> TRUE]

\* shortp: the loop over the cities comparing lower-cased names for equality
RECURSIVE shortp_match(_, _, _, _)
shortp_match(nm, from_name, i, src) ==
    IF i >= Len(nm) THEN src
    ELSE shortp_match(nm, from_name, i + 1,
            IF tolower_copy(nm[i + 1]) = tolower_copy(from_name) THEN i ELSE src)

NamePool ==
    { <<"D", "e", "h", "r", "a", "d", "u", "n">>,
      <<"D", "e", "l", "h", "i">>,
      <<"A", "g", "r", "a">> }

Queries ==
    { <<"d", "e", "h", "r">>,
      <<"D", "E", "L">>,
      <<"d", "e">>,
      <<"d", "e", "l", "h", "i">>,
      <<"h">>,
      <<"r", "a">>,
      <<"d", "l", "h", "i">>,
      <<"a", "g", "r", "a", "s">> }

NameLists ==
    UNION {{nm \in [1 .. n -> NamePool] : \A i, j \in 1 .. n : nm[i] = nm[j] => i = j} :
              n \in 1 .. MaxNames}

InitResolve ==
    /\ mode \in {"dist", "co2"} /\ pc = "ask"
    /\ qs = -1 /\ qt = -1
    /\ names \in NameLists /\ q \in Queries
    /\ apc = "start" /\ shown = <<>> /\ prompted = FALSE /\ res = -1
    /\ DistIdle /\ Co2Idle /\ IoIdle /\ TimeIdle /\ RdpIdle /\ LogIdle /\ LoadIdle

\* distance mode: ecopath calls ask_place_interactive
Ask(pick) ==
    /\ mode = "dist" /\ apc = "start"
    /\ \E r \in {ask_place_interactive(names, q, pick)} :
          /\ apc' = r.st /\ res' = r.idx
          /\ shown' = r.shown /\ prompted' = r.prompted
    /\ UNCHANGED <<mode, pc, qs, qt, names, q, distVars, co2Vars, ioVars, timeVars, rdpVars, loadVars, logVars>>

\* CO2 mode: shortp resolves a typed name by its matching loop
ShortpMatch ==
    /\ mode = "co2" /\ apc = "start"
    /\ res' = shortp_match(names, q, 0, -1)
    /\ apc' = IF res' < 0 THEN "notfound" ELSE "selected"
    /\ UNCHANGED <<mode, pc, qs, qt, names, q, shown, prompted,
                   distVars, co2Vars, ioVars, timeVars, rdpVars, loadVars, logVars>>

ResolveNext ==
    \/ \E pick \in 0 .. MaxNames + 1 : Ask(pick)
    \/ ShortpMatch

SpecResolve == InitResolve /\ [][ResolveNext]_vars

(* ---------------- carbon.c: polyline simplification -------------------- *)
\* Points have integer coordinates and squared distances are exact fractions
\* [num, den] with den > 0; a tolerance e stands for eps = e / 2.
Frac(num, den) == [num |-> num, den |-> den]

FracGT(x, y) == x.num * y.den > y.num * x.den

\* squared distance from point c to segment ab
seg_point_dist2(a, b, c) ==
    LET vx == b.lon - a.lon
        vy == b.lat - a.lat
        wx == c.lon - a.lon
        wy == c.lat - a.lat
        vv == vx * vx + vy * vy
        dot == vx * wx + vy * wy
    IN IF vv = 0 THEN Frac(wx * wx + wy * wy, 1)
       ELSE IF dot < 0 THEN Frac(wx * wx + wy * wy, 1)
       ELSE IF dot > vv
            THEN Frac((c.lon - b.lon) * (c.lon - b.lon) + (c.lat - b.lat) * (c.lat - b.lat), 1)
       ELSE Frac((wx * wx + wy * wy) * vv - dot * dot, vv)

\* the scan of k over i+1 .. j-1: the first point of greatest distance
RECURSIVE RdpScan(_, _, _, _, _)
RdpScan(pts, i, j, k, best) ==
    IF k >= j THEN best
    ELSE LET d2 == seg_point_dist2(pts[i + 1], pts[j + 1], pts[k + 1])
         IN RdpScan(pts, i, j, k + 1,
                    IF FracGT(d2, best.d2) THEN [d2 |-> d2, k |-> k] ELSE best)

\* variant: a segment is split when its farthest point is within the tolerance
RdpSplit_within(bestd2, e) == bestd2.num >= 0 /\ ~FracGT(bestd2, Frac(e * e, 4))

\* bestd2 > eps*eps
RdpSplit(bestd2, e) == FracGT(bestd2, Frac(e * e, 4))

\* variant: only the first point is marked at the start
RdpInitKeep_first(n) == [i \in Nodes(n) |-> IF i = 0 THEN 1 ELSE 0]

\* keep[] after calloc and keep[0] = 1; keep[n-1] = 1
RdpInitKeep(n) == [i \in Nodes(n) |-> IF i = 0 \/ i = n - 1 THEN 1 ELSE 0]

\* the while (top > 0) loop; stack is the sequence stack[0 .. top-1]
\* [keep, maxtop]: maxtop is the largest value top has taken
RECURSIVE RdpLoop(_, _, _, _, _)
RdpLoop(pts, e, stack, keep, maxtop) ==
    IF Len(stack) = 0 THEN [keep |-> keep, maxtop |-> maxtop]
    ELSE LET j == stack[Len(stack)]
             i == stack[Len(stack) - 1]
             rest == SubSeq(stack, 1, Len(stack) - 2)
             best == RdpScan(pts, i, j, i + 1, [d2 |-> Frac(-1, 1), k |-> -1])
         IN IF RdpSplit(best.d2, e)
            THEN RdpLoop(pts, e, rest \o <<i, best.k, best.k, j>>,
                         [keep EXCEPT ![best.k] = 1], MaxI(maxtop, Len(rest) + 4))
            ELSE RdpLoop(pts, e, rest, keep, maxtop)

\* compose out: the kept points in input order, at most out_max of them
RECURSIVE RdpCompose(_, _, _, _, _)
RdpCompose(pts, keep, out_max, i, acc) ==
    IF ~(i < Len(pts) /\ Len(acc) < out_max) THEN acc
    ELSE RdpCompose(pts, keep, out_max, i + 1,
                    IF keep[i] = 1 THEN Append(acc, pts[i + 1]) ELSE acc)

\* the number of ints malloc'ed for the work stack
RdpStackCap(n) == n + 5

\* [c, out, keep, maxtop]: the return value, out[0 .. c-1], the keep flags
\* and the largest number of ints the work stack has held
rdp_simplify(pts, n, e, out_max) ==
    IF n <= 0 \/ out_max <= 0 THEN [c |-> 0, out |-> <<>>, keep |-> <<>>, maxtop |-> 0]
    ELSE IF n = 1 THEN [c |-> 1, out |-> <<pts[1]>>, keep |-> <<>>, maxtop |-> 0]
    ELSE LET lp == RdpLoop(pts, e, <<0, n - 1>>, RdpInitKeep(n), 2)
             outp == RdpCompose(pts, lp.keep, out_max, 0, <<>>)
         IN [c |-> Len(outp), out |-> outp, keep |-> lp.keep, maxtop |-> lp.maxtop]

Polylines == UNION {[1 .. n -> Positions] : n \in 0 .. MaxPts}

\* longer polylines over three positions that are not collinear
Corners == {[lat |-> 0, lon |-> 0], [lat |-> 0, lon |-> 1], [lat |-> 1, lon |-> 0]}

LongPolylines == [1 .. MaxLong -> Corners]

Tolerances == -1 .. MaxEps

InitRdp ==
    /\ mode = "co2" /\ pc = "render"
    /\ qs = -1 /\ qt = -1
    /\ rdp_pc = "start" /\ rdp_pts \in Polylines \cup LongPolylines /\ rdp_eps \in Tolerances
    /\ rdp_keep = <<>> /\ rdp_out = <<>> /\ rdp_c = 0 /\ rdp_maxtop = 0
    /\ DistIdle /\ Co2Idle /\ IoIdle /\ AskIdle /\ TimeIdle /\ LogIdle /\ LoadIdle

\* write_html_map: simp_n = rdp_simplify(raw, raw_n, eps, simp, raw_n)
Simplify ==
    /\ rdp_pc = "start"
    /\ \E r \in {rdp_simplify(rdp_pts, Len(rdp_pts), rdp_eps, Len(rdp_pts))} :
          /\ rdp_maxtop' = r.maxtop
          /\ IF r.maxtop <= RdpStackCap(Len(rdp_pts))
             THEN /\ rdp_keep' = r.keep /\ rdp_out' = r.out /\ rdp_c' = r.c
                  /\ rdp_pc' = "done"
             ELSE \* stack[top++] wrote past the malloc'ed block: the behaviour is
                  \* undefined; the run goes on with the heap damaged or is killed
                  /\ \E survived \in BOOLEAN :
                        IF survived
                        THEN rdp_keep' = r.keep /\ rdp_out' = r.out /\ rdp_c' = r.c
                        ELSE rdp_keep' = <<>> /\ rdp_out' = <<>> /\ rdp_c' = 0
                  /\ rdp_pc' = "overflow"
    /\ UNCHANGED <<mode, pc, qs, qt, rdp_pts, rdp_eps,
                   distVars, co2Vars, ioVars, askVars, timeVars, logVars, loadVars>>

RdpNext == Simplify

SpecRdp == InitRdp /\ [][RdpNext]_vars

(* ------------------------- node files (both loaders) ------------------- *)
\* A node file is a sequence of lines; a line is the sequence of its
\* whitespace-separated tokens. A token is a number (num, with value v) or a
\* word (v names it).
MAX_CITIES == 300

Word(i) == [num |-> FALSE, v |-> i]
Num(x)  == [num |-> TRUE, v |-> x]

\* atof: the value of a number, 0.0 for a word
atof(tok) == IF tok.num THEN tok.v ELSE 0

RECURSIVE Flatten(_)
Flatten(lines) == IF lines = <<>> THEN <<>> ELSE Head(lines) \o Flatten(Tail(lines))

\* load_places: while(V<MAXV && fscanf(fp,"%63s %lf %lf",...)==3) V++;
\* fscanf reads tokens across line ends; %63s takes any token, %lf a number
RECURSIVE load_places_scan(_, _, _)
load_places_scan(toks, p, recs) ==
    IF Len(recs) >= MAXV THEN recs
    ELSE IF p + 2 > Len(toks) THEN recs
    ELSE IF ~toks[p + 1].num \/ ~toks[p + 2].num THEN recs
    ELSE load_places_scan(toks, p + 3,
            Append(recs, [name |-> toks[p], lat |-> toks[p + 1].v, lon |-> toks[p + 2].v]))

\* load_places: [recs, died]; exit(1) without the file, die() below two places
load_places_file(f) ==
    LET recs == IF f.exists THEN load_places_scan(Flatten(f.lines), 1, <<>>) ELSE <<>>
    IN [recs |-> recs, died |-> ~f.exists \/ Len(recs) < 2]

\* load_places_space: the fgets loop; empty lines and lines of fewer than
\* three tokens are passed over, the coordinates go through atof
RECURSIVE load_places_space_scan(_, _, _)
load_places_space_scan(lines, i, recs) ==
    IF i > Len(lines) \/ Len(recs) >= MAX_CITIES THEN recs
    ELSE LET line == lines[i]
         IN IF Len(line) >= 3
            THEN load_places_space_scan(lines, i + 1,
                    Append(recs, [name |-> line[1], lat |-> atof(line[2]), lon |-> atof(line[3])]))
            ELSE load_places_space_scan(lines, i + 1, recs)

\* load_places_space: [rc, recs]
load_places_space(f) ==
    LET recs == IF f.exists THEN load_places_space_scan(f.lines, 1, <<>>) ELSE <<>>
    IN [rc |-> IF Len(recs) > 0 THEN 1 ELSE 0, recs |-> recs]

\* the lines node files are made of
RecordLines ==
    {<<Word(1), Num(0), Num(1)>>,       \* "A 0 1"
     <<Word(2), Num(1), Num(2)>>,       \* "B 1 2"
     <<Word(3), Num(1), Num(0)>>,       \* "C 1 0"
     <<Word(4), Num(1)>>,               \* "D 1": the longitude is missing
     <<Word(5), Word(6), Num(2)>>,      \* "E x 2": the latitude is not a number
     <<>>}                              \* an empty or comment-only line

PlaceFiles ==
    {[exists |-> FALSE, lines |-> <<>>]}
       \cup {[exists |-> TRUE, lines |-> ls] :
                ls \in UNION {[1 .. n -> RecordLines] : n \in 0 .. MaxLines}}

InitLoad ==
    /\ mode \in {"dist", "co2"} /\ pc = "start"
    /\ places_file \in PlaceFiles /\ knn_u = 0
    /\ qs = -1 /\ qt = -1
    /\ DistIdle /\ Co2Idle /\ IoIdle /\ AskIdle /\ TimeIdle /\ RdpIdle /\ LogIdle

\* ecopath: load_places()
LoadPlaces ==
    /\ mode = "dist" /\ pc = "start"
    /\ \E r \in {load_places_file(places_file)} :
          /\ V' = Len(r.recs)
          /\ names' = [i \in 1 .. Len(r.recs) |-> r.recs[i].name]
          /\ lat' = [i \in Nodes(Len(r.recs)) |-> r.recs[i + 1].lat]
          /\ lon' = [i \in Nodes(Len(r.recs)) |-> r.recs[i + 1].lon]
          /\ head' = IF r.died THEN head ELSE reset_graph(Len(r.recs)).head
          /\ pc' = IF r.died THEN "exit" ELSE "loaded"
    /\ UNCHANGED <<mode, qs, qt, to, nxt, w, E, parent, distv, used, skip_u, skip_v, knn_k,
                   out, count, A, q, apc, shown, prompted, res,
                   co2Vars, ioVars, timeVars, rdpVars, logVars, loadVars>>

\* load_cities_auto: load_places_space(places_fn, cities, n)
LoadPlacesSpace ==
    /\ mode = "co2" /\ pc = "start"
    /\ \E r \in {load_places_space(places_file)} :
          /\ g' = [g EXCEPT !.n = Len(r.recs),
                            !.cities = [i \in Nodes(Len(r.recs)) |->
                                          [lat |-> r.recs[i + 1].lat, lon |-> r.recs[i + 1].lon]]]
          /\ names' = [i \in 1 .. Len(r.recs) |-> r.recs[i].name]
          /\ rc' = r.rc
    /\ pc' = "loaded"
    /\ UNCHANGED <<mode, qs, qt, cache, now, fresh, branch, car_co2, path, total_co2,
                   q, apc, shown, prompted, res,
                   distVars, ioVars, timeVars, rdpVars, logVars, loadVars>>

LoadNext == LoadPlaces \/ LoadPlacesSpace

SpecLoad == InitLoad /\ [][LoadNext]_vars

(* ------------------ edge records of build_knn_fixed at scale ------------ *)
\* The number of edge records depends on V and k only: each of the k
\* neighbours selected for u is another node, so each add_edge call passes
\* the index checks and reaches the capacity check.

\* ecopath: k = 8; if (V-1 < k) k = V-1; if (k < 2 && V >= 3) k = 2;
EcopathK(n) ==
    LET k1 == IF n - 1 < 8 THEN n - 1 ELSE 8
    IN IF k1 < 2 /\ n >= 3 THEN 2 ELSE k1

\* add_edge on valid u # v, as far as E is concerned: [E, died]
add_edge_records(c) ==
    IF c.died THEN c
    ELSE IF c.E + 2 >= MAXE THEN [c EXCEPT !.died = TRUE]
    ELSE [c EXCEPT !.E = c.E + 2]

\* the loop for(i=0;i<kk;i++) add_edge(u, idx[i], ...) of one node u
RECURSIVE KnnNodeRecords(_, _, _)
KnnNodeRecords(c, kk, i) ==
    IF i >= kk THEN c ELSE KnnNodeRecords(add_edge_records(c), kk, i + 1)

\* node counts: the small ones and the ones next to the capacity MAXV
CapNodes == (2 .. MaxSmallV) \cup ((MAXV - NearCap) .. MAXV)

InitCap ==
    /\ mode = "dist" /\ pc = "building"
    /\ V \in CapNodes /\ knn_k = EcopathK(V) /\ knn_u = 0 /\ E = 0
    /\ lat = <<>> /\ lon = <<>> /\ head = <<>> /\ to = <<>> /\ nxt = <<>> /\ w = <<>>
    /\ parent = <<>> /\ distv = <<>> /\ used = <<>>
    /\ skip_u = -1 /\ skip_v = -1 /\ out = <<>> /\ count = 0 /\ A = <<>>
    /\ places_file = [exists |-> FALSE, lines |-> <<>>]
    /\ qs = -1 /\ qt = -1
    /\ Co2Idle /\ IoIdle /\ AskIdle /\ TimeIdle /\ RdpIdle /\ LogIdle

\* build_knn_fixed: one iteration of for(u=0;u<V;u++)
KnnNode ==
    /\ mode = "dist" /\ pc = "building" /\ knn_u < V
    /\ \E c \in {KnnNodeRecords([E |-> E, died |-> FALSE],
                                 IF knn_k < V THEN knn_k ELSE V, 0)} :
          /\ E' = c.E
          /\ pc' = IF c.died THEN "exit" ELSE "building"
    /\ knn_u' = knn_u + 1
    /\ UNCHANGED <<mode, qs, qt, V, lat, lon, head, to, nxt, w, parent, distv, used,
                   skip_u, skip_v, knn_k, out, count, A, places_file,
                   co2Vars, ioVars, askVars, timeVars, rdpVars, logVars>>

\* build_knn_fixed: the loop is over, the graph is reported
KnnDone ==
    /\ mode = "dist" /\ pc = "building" /\ knn_u >= V
    /\ pc' = "built"
    /\ UNCHANGED <<mode, qs, qt, distVars, co2Vars, ioVars, askVars, timeVars, rdpVars,
                   logVars, loadVars>>

CapNext == KnnNode \/ KnnDone

SpecCap == InitCap /\ [][CapNext]_vars

(* ================================ claims ================================ *)

\* C1: for a target reachable from the source, the cost returned by
\* ecodijkstra (sparse mode, routes[0].cost) and by dijkstra (CO2 mode,
\* total_co2) is the least total edge weight over all source-target paths,
\* although both loops stop when the target is selected.
C1_MinCost ==
    (pc = "done") =>
        IF mode = "dist"
        THEN \E d \in {TrueDist(CurGraph, V, qs)[qt]} :
                d < INF => (count >= 1 /\ out[1].cost = d)
        ELSE \E d \in {DenseTrueDist(g.edges, g.n, qs)[qt]} :
                (NonNegative(g.edges, g.n) /\ d < INF) => (rc = 1 /\ total_co2 = d)

\* a sparse run of three or more nodes that ended with nodes still unvisited
C1_Witness ==
    /\ pc = "done" /\ mode = "dist" /\ count >= 1 /\ out[1].len >= 3
    /\ \E i \in Nodes(V) : ecodijkstra(CurGraph, V, qs, qt).used[i] = 0

\* C2: the reconstructed node sequence starts at the source, ends at the
\* target, joins consecutive nodes by edges of the graph, and its edge
\* weights add up to the reported cost (both modes).
C2_PathIsWalk ==
    (pc = "done") =>
        IF mode = "dist"
        THEN count >= 1 =>
               /\ out[1].len = Len(out[1].nodes)
               /\ out[1].nodes[1] = qs /\ out[1].nodes[out[1].len] = qt
               /\ IsGraphPath(CurGraph, out[1].nodes)
               /\ WeightSum(CurGraph, out[1].nodes, 1) = out[1].cost
        ELSE rc = 1 =>
               /\ Len(path) >= 1
               /\ path[1] = qs /\ path[Len(path)] = qt
               /\ \A j \in 1 .. (Len(path) - 1) : g.edges[<<path[j], path[j + 1]>>].v >= 0
               /\ Co2Sum(g.edges, path, 1) = total_co2

C2_Witness ==
    /\ pc = "done" /\ mode = "dist" /\ count >= 1 /\ out[1].len >= 4

\* C3: when two paths are returned, no node occurs twice in the alternate.
C3_AltLoopFree ==
    (pc = "done" /\ mode = "dist" /\ count = 2) => Distinct(out[2].nodes)

\* two paths returned while a candidate with a repeated node was assembled
C3_Witness ==
    /\ pc = "done" /\ mode = "dist" /\ count = 2
    /\ \E p \in 1 .. Len(A) : ~Distinct(A[p].nodes)

\* C4: when two paths are returned, their node sequences differ.
C4_PathsDiffer ==
    (pc = "done" /\ mode = "dist" /\ count = 2) => out[1].nodes # out[2].nodes

\* two paths returned on a graph with a zero-length edge, the first edge of
\* the best path being recorded more than once in each direction
C4_Witness ==
    /\ pc = "done" /\ mode = "dist" /\ count = 2
    /\ Cardinality(RecordsFromTo(CurGraph, out[1].nodes[1], out[1].nodes[2])) >= 2
    /\ \E e \in 1 .. E : w[e] = 0

\* C5: when yen_k2_paths has returned, the graph is the one build_knn_fixed
\* left, no exclusion is active, and a query that honours the exclusion
\* gives what the same query gives on the untouched graph.
C5_ExclusionScoped ==
    (pc = "done" /\ mode = "dist") =>
        \E built \in {build_knn_fixed(V, knn_k)} :
            /\ CurGraph = built
            /\ skip_u = -1 /\ skip_v = -1
            /\ \A s \in Nodes(V), t \in Nodes(V) :
                  dijkstra_skip_edge(CurGraph, V, s, t, skip_u, skip_v)
                     = ecodijkstra(built, V, s, t)

\* a return after at least one edge was excluded
C5_Witness ==
    /\ pc = "done" /\ mode = "dist" /\ count >= 1 /\ Len(A) >= 1

\* the example of C6: A(0,0), B(0,1), C(0,2), sparse mode, k = 2, route A -> C
C6_Example ==
    /\ mode = "dist" /\ pc = "done"
    /\ V = 3 /\ knn_k = 2
    /\ lat = [i \in Nodes(3) |-> 0] /\ lon = [i \in Nodes(3) |-> i]
    /\ qs = 0 /\ qt = 2

\* C6 as stated: the best path of the example is [A,B,C] with cost
\* dist(A,B) + dist(B,C).
C6_Original ==
    C6_Example =>
        /\ count >= 1
        /\ out[1].nodes = <<0, 1, 2>>
        /\ out[1].cost = haversine_km_idx(0, 1) + haversine_km_idx(1, 2)

\* C6 amended: the best path of the example is the direct edge [A,C], whose
\* cost equals dist(A,B) + dist(B,C); [A,B,C] is returned as the alternate.
C6_DirectEdge ==
    C6_Example =>
        /\ count = 2
        /\ out[1].nodes = <<0, 2>>
        /\ out[1].cost = haversine_km_idx(0, 1) + haversine_km_idx(1, 2)
        /\ out[2].nodes = <<0, 1, 2>>
        /\ out[2].cost = out[1].cost

C6_Witness == C6_Example /\ count = 2

\* C9: is_cache_fresh reports fresh exactly when the file exists, its
\* timestamp T is readable and 0 <= now - T <= ttl minutes (in seconds).
C9_FreshWindow ==
    [][(pc = "graph" /\ pc' = "traffic") =>
          (fresh' <=> (/\ cache.exists /\ cache.tsok
                       /\ 0 <= now - cache.ts
                       /\ now - cache.ts <= CACHE_TTL_MINUTES_DEFAULT * 60))]_vars

\* a snapshot exactly ttl minutes old was found fresh and loaded
C9_Witness ==
    /\ mode = "co2" /\ pc = "traffic" /\ fresh /\ branch = "cache"
    /\ cache.ts = now - CACHE_TTL_MINUTES_DEFAULT * 60

\* C10 as stated: after traffic preparation, by either branch, every edge's
\* traffic multiplier is at least 1.0 and at most the cap 4.0.
C10_Original ==
    (mode = "co2" /\ pc \in {"traffic", "weights", "done"}) =>
        \A p \in Slots(g.n) :
            p[1] # p[2] =>
               (TF_ONE <= g.edges[p].traffic_factor /\ g.edges[p].traffic_factor <= TF_CAP)

\* C8 as stated: a reader that loads the cache while save_traffic_cache is
\* writing gets either the complete previous snapshot or the complete new one.
C8_Original ==
    (rpc = "loaded") =>
        \/ /\ prevfile.exists
           /\ rseen = Factors(load_traffic_cache(build_complete_graph(g.cities, g.n),
                                                  g.n, prevfile).edges, g.n)
        \/ (wpc \in {"open", "closed"} /\ rseen = Factors(g.edges, g.n))

\* C7 as stated: a query that is no exact name and is a case-insensitive
\* substring of exactly one name resolves to that name, with no candidate list
\* printed and no selection asked for, in the distance and in the CO2 mode.
C7_Original ==
    LET exact == {i \in Nodes(Len(names)) : strcasecmp_eq(names[i + 1], q)}
        subs  == {i \in Nodes(Len(names)) : ci_contains(names[i + 1], q)}
    IN (apc \in {"selected", "died", "notfound"} /\ exact = {} /\ Cardinality(subs) = 1)
          => (apc = "selected" /\ res \in subs /\ shown = <<>> /\ ~prompted)

\* C11 as stated: a request whose source and target are the same node fails
\* as an invalid request in both modes; no path is computed or reported.
C11_Original ==
    (pc \in {"done", "exit"} /\ qs >= 0 /\ qs = qt) =>
        (pc = "exit" /\ rc = 0 /\ path = <<>> /\ count = 0 /\ out = <<>>)

\* C12 as stated: a routing failure (here: source equals target) is handed
\* back to the caller as an ordinary result and never terminates the process
\* (pc = "exit" is the process ended by exit(1), the menu loop with it).
C12_Original ==
    (qs >= 0 /\ qs = qt) => pc # "exit"

\* C13 as stated: after build_knn_fixed the adjacency lists hold no self-loop
\* record and, for every ordered pair (u,v), at most one record from u to v.
C13_Original ==
    (mode = "dist" /\ pc \in {"ready", "done"}) =>
        \A u \in Nodes(V), v \in Nodes(V) :
            /\ RecordsFromTo(CurGraph, u, u) = {}
            /\ Cardinality(RecordsFromTo(CurGraph, u, v)) <= 1

\* the k nodes build_knn_fixed selects for u (k clamped as the code clamps it)
KnnClamp(n, k0) == MinI(n - 1, MaxI(k0, 1))

KnnSelected(n, k0, u) ==
    {KnnOrder(n, KnnClamp(n, k0), u)[i] : i \in 0 .. KnnClamp(n, k0) - 1}

\* C14 as stated: the selected neighbours of u are the k nearest other nodes,
\* equal distances resolved by ascending node index.
C14_Original ==
    (mode = "dist" /\ pc \in {"ready", "done"}) =>
        \A u \in Nodes(V) :
            \A v \in KnnSelected(V, knn_k, u), x \in Nodes(V) \ (KnnSelected(V, knn_k, u) \cup {u}) :
                /\ haversine_km_idx(u, v) <= haversine_km_idx(u, x)
                /\ haversine_km_idx(u, v) = haversine_km_idx(u, x) => v < x

\* the indices kept by rdp_simplify for the polyline pts at tolerance e
KeptSet(pts, e) ==
    IF Len(pts) = 0 THEN {}
    ELSE IF Len(pts) = 1 THEN {0}
    ELSE {i \in Nodes(Len(pts)) : rdp_simplify(pts, Len(pts), e, Len(pts)).keep[i] = 1}

\* C15: for a non-empty polyline and any tolerance rdp_simplify keeps the
\* first and the last point, returns no more points than given, and returns
\* an empty output only for an empty input.
C15_Endpoints ==
    (rdp_pc = "done") =>
        /\ rdp_c = Len(rdp_out)
        /\ rdp_c <= Len(rdp_pts)
        /\ (rdp_c = 0) <=> (Len(rdp_pts) = 0)
        /\ Len(rdp_pts) > 0 =>
              /\ rdp_out[1] = rdp_pts[1]
              /\ rdp_out[rdp_c] = rdp_pts[Len(rdp_pts)]
              /\ Len(rdp_pts) > 1 => (rdp_keep[0] = 1 /\ rdp_keep[Len(rdp_pts) - 1] = 1)

\* a polyline of the largest length simplified down to its two end points,
\* which differ
C15_Witness ==
    /\ rdp_pc = "done" /\ Len(rdp_pts) = MaxPts /\ rdp_c = 2
    /\ rdp_pts[1] # rdp_pts[MaxPts]

\* C16 as stated: with tolerance 0 rdp_simplify returns the full input.
C16_Original ==
    (rdp_pc = "done" /\ rdp_eps = 0) => rdp_out = rdp_pts

\* C17: for tolerances 0 <= e1 <= e2 the points kept at e2 are among the
\* points kept at e1, so the output is no longer at e2 than at e1.
C17_Monotone ==
    (rdp_pc = "done" /\ rdp_eps >= 0 /\ Len(rdp_pts) > 1) =>
        \A e2 \in rdp_eps .. MaxEps :
            /\ KeptSet(rdp_pts, e2) \subseteq {i \in Nodes(Len(rdp_pts)) : rdp_keep[i] = 1}
            /\ rdp_simplify(rdp_pts, Len(rdp_pts), e2, Len(rdp_pts)).c <= rdp_c

\* a polyline whose output strictly shrinks between two tolerances
C17_Witness ==
    /\ rdp_pc = "done" /\ rdp_eps >= 0 /\ Len(rdp_pts) > 2
    /\ rdp_c = Len(rdp_pts)
    /\ \E e2 \in rdp_eps .. MaxEps :
          rdp_simplify(rdp_pts, Len(rdp_pts), e2, Len(rdp_pts)).c < rdp_c

\* total distance_km over the steps of a dense-graph path
RECURSIVE DistSum(_, _, _)
DistSum(edges, ns, j) ==
    IF j >= Len(ns) THEN 0
    ELSE edges[<<ns[j], ns[j + 1]>>].distance_km + DistSum(edges, ns, j + 1)

\* C18 as stated: each reported time is (total path distance / speed) * 60
\* with the fixed speeds 40/15/5 km/h (distance mode) and 50/15/5 km/h (CO2
\* mode), whatever the traffic multipliers of the path's edges.
C18_Original ==
    (pc = "done") =>
        IF mode = "dist"
        THEN count >= 1 =>
               /\ car_min = (HavSum(out[1].nodes, 1) * 120) \div CAR_KMH
               /\ bike_min = (HavSum(out[1].nodes, 1) * 120) \div BIKE_KMH
               /\ walk_min = (HavSum(out[1].nodes, 1) * 120) \div WALK_KMH
        ELSE rc = 1 =>
               /\ car_min = (DistSum(g.edges, path, 1) * 300) \div CAR_FREEFLOW_KMPH
               /\ bike_min = (DistSum(g.edges, path, 1) * 300) \div BIKE_KMPH
               /\ walk_min = (DistSum(g.edges, path, 1) * 300) \div WALK_KMPH

\* the edit distance proper (least number of insertions, deletions and
\* substitutions), case-insensitive
RECURSIVE EditCells(_, _, _, _, _, _)
EditCells(a, b, i, prev, j, acc) ==
    IF j > Len(b) THEN acc
    ELSE EditCells(a, b, i, prev, j + 1,
             Append(acc, MinI(prev[j + 1] + 1,
                              MinI(acc[j] + 1, prev[j] + (IF a[i] = b[j] THEN 0 ELSE 1)))))

RECURSIVE EditRows(_, _, _, _)
EditRows(a, b, i, prev) ==
    IF i > Len(a) THEN prev
    ELSE EditRows(a, b, i + 1, EditCells(a, b, i, prev, 1, <<i>>))

EditDistance(s1, s2) ==
    EditRows(tolower_copy(s1), tolower_copy(s2), 1,
             [j \in 1 .. Len(s2) + 1 |-> j - 1])[Len(s2) + 1]

\* the node indices in ascending order of (edit distance to query, index),
\* cut after the first min(5, V)
RankedByEdit(nm, query) ==
    LET n == Len(nm)
        d(i) == EditDistance(nm[i + 1], query)
        before(j, i) == d(j) < d(i) \/ (d(j) = d(i) /\ j < i)
        rank(i) == Cardinality({j \in Nodes(n) : before(j, i)})
    IN [p \in 1 .. MinI(BEST_N, n) |-> CHOOSE i \in Nodes(n) : rank(i) = p - 1]

\* C19 as stated: with neither an exact nor a substring match, the list
\* printed is the min(5, V) names of least edit distance to the query, in
\* ascending order of distance, equal distances by node index.
C19_Original ==
    LET exact == {i \in Nodes(Len(names)) : strcasecmp_eq(names[i + 1], q)}
        subs  == {i \in Nodes(Len(names)) : ci_contains(names[i + 1], q)}
    IN (mode = "dist" /\ apc \in {"selected", "died"} /\ exact = {} /\ subs = {})
          => shown = RankedByEdit(names, q)

\* C20: apply_co2_weights with factor f sets co2_cost to
\* distance_km * traffic_factor * f on every slot i # j and to 0 on every
\* self-pair slot, and leaves distance_km and traffic_factor as they were.
C20_Weights ==
    [][(pc = "traffic" /\ pc' = "weights") =>
          /\ g'.n = g.n /\ g'.cities = g.cities
          /\ \A p \in Slots(g.n) :
                /\ g'.edges[p].co2_cost =
                      IF p[1] # p[2]
                      THEN g.edges[p].distance_km * g.edges[p].traffic_factor * car_co2'
                      ELSE 0
                /\ g'.edges[p].distance_km = g.edges[p].distance_km
                /\ g'.edges[p].traffic_factor = g.edges[p].traffic_factor
                /\ g'.edges[p].v = g.edges[p].v]_vars

\* weights applied with factor 120 to an edge of multiplier 2.0
C20_Witness ==
    /\ mode = "co2" /\ pc = "weights" /\ car_co2 = DEFAULT_CO2_GKM
    /\ \E p \in Slots(g.n) :
          /\ p[1] # p[2] /\ g.edges[p].traffic_factor = 2 * TF_ONE
          /\ g.edges[p].co2_cost = g.edges[p].distance_km * 2 * TF_ONE * DEFAULT_CO2_GKM
          /\ g.edges[p].co2_cost > 0

\* C21: after every run of ecodijkstra, dijkstra_skip_edge and the dense
\* dijkstra the distance recorded for the source is 0 and the source has no
\* predecessor (-1), early exits and excluded edges included.
C21_SourceFixed ==
    (pc = "done") =>
        IF mode = "dist"
        THEN /\ \E st \in {ecodijkstra(CurGraph, V, qs, qt)} :
                   st.distv[qs] = 0 /\ st.parent[qs] = -1
             /\ \A u \in Nodes(V), v \in Nodes(V) :
                   \E st \in {dijkstra_skip_edge(CurGraph, V, qs, qt, u, v)} :
                       st.distv[qs] = 0 /\ st.parent[qs] = -1
             /\ count = 0 => (distv[qs] = 0 /\ parent[qs] = -1)
             /\ (count >= 1 /\ out[1].len >= 2) =>
                   /\ distv[out[1].nodes[out[1].len - 1]] = 0
                   /\ parent[out[1].nodes[out[1].len - 1]] = -1
        ELSE \E r \in {dijkstra(g.edges, g.n, qs, qt)} :
                r.nodes[qs].dist = 0 /\ r.nodes[qs].prev = -1

\* the tables left by a spur run that stopped at the target with a node
\* still unvisited, two paths returned
C21_Witness ==
    /\ pc = "done" /\ mode = "dist" /\ count = 2 /\ out[1].len >= 3
    /\ \E i \in Nodes(V) : used[i] = 0
    /\ distv[out[1].nodes[out[1].len - 1]] = 0

\* C22 as stated: levenshtein_ci equals the Levenshtein distance of the
\* lower-cased strings and is symmetric in its arguments.
C22_Original ==
    LET exact == {i \in Nodes(Len(names)) : strcasecmp_eq(names[i + 1], q)}
        subs  == {i \in Nodes(Len(names)) : ci_contains(names[i + 1], q)}
    IN (mode = "dist" /\ apc \in {"selected", "died"} /\ exact = {} /\ subs = {})
          => \A i \in Nodes(Len(names)) :
                /\ levenshtein_ci(names[i + 1], q) = EditDistance(names[i + 1], q)
                /\ levenshtein_ci(names[i + 1], q) = levenshtein_ci(q, names[i + 1])

\* positions of a call name in the call log
CallsOf(log, name) == {i \in 1 .. Len(log) : log[i] = name}

\* the cache file as save_traffic_cache leaves it when it can open the file
SavedFile(edges, n, tnow) == [exists |-> TRUE, tsok |-> TRUE, ts |-> tnow, rows |-> SaveRows(edges, n, 0, 1)]

\* the persisted cache is fresh and loads
CacheHit == is_cache_fresh(cache, CACHE_TTL_MINUTES_DEFAULT, now) /\ load_traffic_cache(g.edges, g.n, cache).ok

\* the call order of one traffic preparation: no sampling and no write on a
\* cache hit, otherwise one save_traffic_cache call, after every sampling call
CallOrder(hit, log) ==
    IF hit
    THEN CallsOf(log, "sample_tomtom_factor") = {} /\ CallsOf(log, "save_traffic_cache") = {}
    ELSE /\ Cardinality(CallsOf(log, "save_traffic_cache")) = 1
         /\ CallsOf(log, "sample_tomtom_factor") # {}
         /\ \A i \in CallsOf(log, "sample_tomtom_factor") :
               \A j \in CallsOf(log, "save_traffic_cache") : i < j

\* C23 as stated: on a cache hit the traffic collaborator is not called and the
\* cache file is not written; otherwise every sampling call precedes the cache
\* write and the file is written exactly once, after all sampling.
C23_Original ==
    [][(mode = "co2" /\ pc = "graph" /\ pc' = "traffic")
          => /\ CallOrder(CacheHit, calls')
             /\ cache' = IF CacheHit THEN cache ELSE SavedFile(g'.edges, g.n, now)]_vars

\* C23 amended: the same call order, and the file holds the sampled factors
\* unless save_traffic_cache could not open it, in which case it is unchanged.
C23_WriteOnce ==
    [][(mode = "co2" /\ pc = "graph" /\ pc' = "traffic")
          => /\ CallOrder(CacheHit, calls')
             /\ IF CacheHit THEN cache' = cache
                            ELSE cache' \in {SavedFile(g'.edges, g.n, now), cache}]_vars

C23_Witness ==
    /\ mode = "co2" /\ pc = "traffic" /\ branch = "sampled"
    /\ CallsOf(calls, "sample_tomtom_factor") # {}
    /\ calls[Len(calls)] = "save_traffic_cache"
    /\ cache = SavedFile(g.edges, g.n, now)

\* C24: after traffic preparation the traffic multiplier of slot (i,j) equals
\* that of slot (j,i) for all i # j, whichever branch prepared the factors and
\* whatever pairs the rows of a loaded cache file name.
C24_Symmetric ==
    (mode = "co2" /\ pc \in {"traffic", "weights", "done"})
       => \A i, j \in Nodes(g.n) :
             i # j => g.edges[<<i, j>>].traffic_factor = g.edges[<<j, i>>].traffic_factor

\* a cache file that names one pair in both orders with different factors was loaded
C24_Witness ==
    /\ mode = "co2" /\ pc = "traffic" /\ branch = "cache"
    /\ \E a, b \in 1 .. Len(cache.rows) :
          /\ a < b
          /\ cache.rows[a][1] = cache.rows[b][2] /\ cache.rows[a][2] = cache.rows[b][1]
          /\ cache.rows[a][1] # cache.rows[a][2]
          /\ cache.rows[a][3] # cache.rows[b][3]

\* no walk of the sparse graph leads from the source to the target
Unreachable(adj, n, s, t) == TrueDist(adj, n, s)[t] >= INF

\* C25: when the target is unreachable from the source in the sparse graph,
\* yen_k2_paths returns zero paths and ecopath returns normally to its caller:
\* the process is not terminated, no map is written, no exclusion is active.
C25_NoRoute ==
    (mode = "dist" /\ pc \in {"done", "exit"} /\ qs # -1 /\ qs # qt)
       => \E u \in {Unreachable(CurGraph, V, qs, qt)} :
             u => /\ pc = "done"
                  /\ count = 0 /\ out = <<>>
                  /\ map_written = FALSE
                  /\ skip_u = -1 /\ skip_v = -1

\* a request between two nodes of different components of a graph that has edges
C25_Witness ==
    /\ mode = "dist" /\ pc = "done" /\ qs # qt /\ count = 0
    /\ E > 0 /\ V >= 3
    /\ Unreachable(CurGraph, V, qs, qt)

\* a node record "Name lat lon": three tokens, the last two numbers
WellFormed(line) == Len(line) = 3 /\ line[2].num /\ line[3].num

Malformed(line) == line # <<>> /\ ~WellFormed(line)

\* the well-formed records of a file, in file order
RECURSIVE WellFormedRecords(_)
WellFormedRecords(lines) ==
    IF lines = <<>> THEN <<>>
    ELSE (IF WellFormed(Head(lines))
          THEN <<[name |-> Head(lines)[1], lat |-> Head(lines)[2].v, lon |-> Head(lines)[3].v]>>
          ELSE <<>>) \o WellFormedRecords(Tail(lines))

\* C26 as stated: load_places_space skips malformed records and loads the
\* valid ones in file order; load_places reports the first record that fails
\* to parse as a hard error instead of ending the node list there.
C26_Original ==
    (pc \in {"loaded", "exit"} /\ places_file.exists)
       => IF mode = "co2"
          THEN \E recs \in {WellFormedRecords(places_file.lines)} :
                  /\ g.n = Len(recs)
                  /\ \A i \in 1 .. Len(recs) :
                        /\ names[i] = recs[i].name
                        /\ g.cities[i - 1] = [lat |-> recs[i].lat, lon |-> recs[i].lon]
          ELSE (\E i \in 1 .. Len(places_file.lines) : Malformed(places_file.lines[i]))
                  => pc = "exit"

\* the simple paths of the graph from s to t, as node sequences
SimplePaths(adj, n, s, t) ==
    {p \in UNION {[1 .. k -> Nodes(n)] : k \in 2 .. n} :
        p[1] = s /\ p[Len(p)] = t /\ Distinct(p) /\ IsGraphPath(adj, p)}

\* C27: when yen_k2_paths returns an alternate, its cost is the least cost
\* over all simple source-target paths whose node sequence differs from the
\* best path, and it is not lower than the cost of the best path.
C27_SecondBest ==
    (pc = "done" /\ mode = "dist" /\ count = 2 /\ out[1].len - 1 <= YEN_CAP)
       => \E others \in {{WeightSum(CurGraph, p, 1) :
                             p \in SimplePaths(CurGraph, V, qs, qt) \ {out[1].nodes}}} :
             /\ others # {}
             /\ out[2].cost = MinOf(others)
             /\ out[2].cost >= out[1].cost

\* an alternate dearer than the best path, chosen among several candidates
\* of different cost, one of which revisits a node
C27_Witness ==
    /\ pc = "done" /\ mode = "dist" /\ count = 2
    /\ out[2].cost > out[1].cost
    /\ \E a, b \in 1 .. Len(A) : A[a].cost < A[b].cost /\ ~Distinct(A[b].nodes)

\* C28 as stated: for every input of n >= 2 points and every tolerance the
\* work stack of rdp_simplify never holds more than its n + 5 allocated ints.
C28_Original ==
    (rdp_pc \in {"done", "overflow"} /\ Len(rdp_pts) >= 2)
       => rdp_maxtop <= RdpStackCap(Len(rdp_pts))

C30_Original ==
    (mode = "dist" /\ pc \in {"building", "built", "exit"})
       => /\ pc # "exit"
          /\ E <= MAXE
          /\ pc = "built" => E = 2 * V * knn_k

====
